---- MODULE Spec2Model ----
(***************************************************************************)
(* Model of the Cartesia infill reproduction harness:                      *)
(*   - mergeSpacesWithFollowingWords (src/lib/retext),                      *)
(*   - the slice/boundary computation of evaluateInfill,                    *)
(*   - the run of main() in scripts/test-infill.ts: timestamps, per-word    *)
(*     extraction, the word-count check, the voice clone and the batch of   *)
(*     infill trials, with every external call able to throw.               *)
(*                                                                         *)
(* Strings are sequences of one-character strings.  Times are integers in  *)
(* tenths of a second (0.3 s is 3); floating-point rounding is not         *)
(* modelled.  The Word fields type, videoSource and audioSource are the    *)
(* same for every word of a recording and are left out.                    *)
(***************************************************************************)
EXTENDS Integers, Sequences, FiniteSets, TLC

(***************************************************************************)
(* Strings                                                                 *)
(***************************************************************************)
Whitespace == {" ", "\t"}

RECURSIVE TrimStart(_)
TrimStart(s) ==
    IF s # <<>> /\ Head(s) \in Whitespace THEN TrimStart(Tail(s)) ELSE s

RECURSIVE TrimEnd(_)
TrimEnd(s) ==
    IF s # <<>> /\ s[Len(s)] \in Whitespace
    THEN TrimEnd(SubSeq(s, 1, Len(s) - 1))
    ELSE s

\* String.prototype.trim
Trim(s) == TrimEnd(TrimStart(s))

\* Array.prototype.slice(from, to) / String.prototype.slice: negative
\* indices count from the end, both ends are clamped to the length.
Slice(s, from, to) ==
    LET n == Len(s)
        clamp(k) == IF k < 0 THEN (IF n + k < 0 THEN 0 ELSE n + k)
                    ELSE (IF k > n THEN n ELSE k)
        a == clamp(from)
        b == clamp(to)
    IN IF a < b THEN SubSeq(s, a + 1, b) ELSE <<>>

\* words.map(w => w.attrs.value).join('')
RECURSIVE JoinValues(_)
JoinValues(ws) ==
    IF ws = <<>> THEN <<>> ELSE Head(ws).value \o JoinValues(Tail(ws))

LowerCase == <<"a", "b", "c", "d", "e", "f", "g", "h", "i", "j", "k", "l", "m",
               "n", "o", "p", "q", "r", "s", "t", "u", "v", "w", "x", "y", "z">>
UpperCase == <<"A", "B", "C", "D", "E", "F", "G", "H", "I", "J", "K", "L", "M",
               "N", "O", "P", "Q", "R", "S", "T", "U", "V", "W", "X", "Y", "Z">>
Digits == {"0", "1", "2", "3", "4", "5", "6", "7", "8", "9"}

\* String.prototype.toLowerCase
ToLowerCase(s) ==
    [k \in 1..Len(s) |->
        IF \E u \in 1..26 : UpperCase[u] = s[k]
        THEN LowerCase[CHOOSE u \in 1..26 : UpperCase[u] = s[k]]
        ELSE s[k]]

\* .replace(/[^a-z0-9\s-]/g, '')
RECURSIVE StripOthers(_)
StripOthers(s) ==
    IF s = <<>> THEN <<>>
    ELSE IF \/ \E u \in 1..26 : LowerCase[u] = Head(s)
            \/ Head(s) \in Digits \cup Whitespace \cup {"-"}
         THEN <<Head(s)>> \o StripOthers(Tail(s))
         ELSE StripOthers(Tail(s))

\* .replace(/\s+/g, '-')
RECURSIVE DashSpaces(_)
DashSpaces(s) ==
    IF s = <<>> THEN <<>>
    ELSE IF Head(s) \in Whitespace
         THEN <<"-">> \o DashSpaces(TrimStart(s))
         ELSE <<Head(s)>> \o DashSpaces(Tail(s))

SlugLimit == 50

sanitizeFolderName(text) ==
    Slice(DashSpaces(StripOthers(ToLowerCase(Trim(text)))), 0, SlugLimit)

(***************************************************************************)
(* Words                                                                   *)
(***************************************************************************)
Word(v, s, d) ==
    [value |-> v, startInSeconds |-> s, duration |-> d, audioStartInSeconds |-> s]

isSpaceOnly(word) == Trim(word.value) = <<>>

\* mutant: the successor keeps its own duration
MergedWordKeepDuration(word, nextWord) ==
    [nextWord EXCEPT !.value = word.value \o nextWord.value,
                     !.startInSeconds = word.startInSeconds,
                     !.audioStartInSeconds = word.audioStartInSeconds]

\* mutant: the merged word lasts as long as the whitespace alone
MergedWordSpaceDuration(word, nextWord) ==
    [nextWord EXCEPT !.value = word.value \o nextWord.value,
                     !.startInSeconds = word.startInSeconds,
                     !.duration = word.duration,
                     !.audioStartInSeconds = word.audioStartInSeconds]

\* the object written to words[i + 1]
MergedWord(word, nextWord) ==
    [nextWord EXCEPT !.value = word.value \o nextWord.value,
                     !.startInSeconds = word.startInSeconds,
                     !.duration = nextWord.duration + word.duration,
                     !.audioStartInSeconds = word.audioStartInSeconds]

\* mutant: every word that is not merged is pushed, whitespace or not
KeepWordAlways(word) == TRUE

\* the else-if of the loop: is the word pushed to result
KeepWord(word) == ~isSpaceOnly(word)

\* The for loop, from index i on (1-based).  words is the caller's array,
\* which the loop writes to; result is the array being built.
RECURSIVE MergeLoop(_, _, _)
MergeLoop(words, result, i) ==
    IF i > Len(words) THEN [words |-> words, result |-> result]
    ELSE LET word == words[i]
         IN IF isSpaceOnly(word) /\ i + 1 <= Len(words)
            THEN MergeLoop([words EXCEPT ![i + 1] = MergedWord(word, words[i + 1])],
                           result, i + 1)
            ELSE IF KeepWord(word)
                 THEN MergeLoop(words, Append(result, word), i + 1)
                 ELSE MergeLoop(words, result, i + 1)

\* A call: .result is the returned array, .words the argument array after it.
mergeSpacesWithFollowingWords(words) == MergeLoop(words, <<>>, 1)

(***************************************************************************)
(* Segment boundaries of evaluateInfill                                    *)
(***************************************************************************)
\* the stub of web-audio-api: returns the timestamp it is given
moveToSilence(timestamp) == timestamp

\* mutant: the middle slice starts one word early
MiddleSliceEarly(words, startIndex, leftWordCount, middleWordCount) ==
    Slice(words, startIndex + leftWordCount - 1,
          startIndex + leftWordCount + middleWordCount)

MiddleSlice(words, startIndex, leftWordCount, middleWordCount) ==
    Slice(words, startIndex + leftWordCount,
          startIndex + leftWordCount + middleWordCount)

\* the three slices and the text to infill
ComputeSlices(words, startIndex, leftWordCount, middleWordCount, rightWordCount) ==
    LET middleWords == MiddleSlice(words, startIndex, leftWordCount, middleWordCount)
    IN [leftWords |-> Slice(words, startIndex, startIndex + leftWordCount),
        middleWords |-> middleWords,
        rightWords |-> Slice(words, startIndex + leftWordCount + middleWordCount,
                             startIndex + leftWordCount + middleWordCount
                                 + rightWordCount),
        middleText |-> JoinValues(middleWords)]

\* Reading .attrs of leftWords[0] or rightWords[0] throws a TypeError when
\* the slice is empty.
OffsetsThrow(leftWords, rightWords) == leftWords = <<>> \/ rightWords = <<>>

\* the time ranges handed to extractAudioSegment
ComputeOffsets(leftWords, rightWords) ==
    LET lastLeftWord == leftWords[Len(leftWords)]
        lastRightWord == rightWords[Len(rightWords)]
    IN [leftStart |-> leftWords[1].startInSeconds,
        leftEnd |-> moveToSilence(lastLeftWord.startInSeconds + lastLeftWord.duration),
        rightStart |-> moveToSilence(rightWords[1].startInSeconds),
        rightEnd |-> lastRightWord.startInSeconds + lastRightWord.duration]

(***************************************************************************)
(* State                                                                   *)
(***************************************************************************)
VARIABLES
    \* calls of mergeSpacesWithFollowingWords on one caller-owned array
    mPc,        \* "input", "called", "again", "onOutput"
    mInput,     \* the value of the argument array before the first call
    mWords,     \* the argument array as it is now
    mResult,    \* what the first call returned
    mOut,       \* the array the first call returned, as it is now
    mSecond     \* what the second call returned

mergeVars == <<mPc, mInput, mWords, mResult, mOut, mSecond>>

VARIABLES
    \* one boundary computation of evaluateInfill
    bPc,        \* "args", "done", "threw"
    bArgs,      \* words, startIndex and the three counts
    bOut        \* the slices, the middle text and the offsets

boundVars == <<bPc, bArgs, bOut>>

VARIABLES
    \* one run of main()
    pc,         \* where the run is
    rec,        \* the recording: what the transcriber returns for it
    cache,      \* the timestamps cache entry of the recording
    words,      \* const words of main
    wordsDir,   \* the words/ folder: does it exist, how many files it holds
    files,      \* the files of the recording's output directory
    voiceId,    \* clonedVoice.id
    iTrial,     \* i of the batch loop
    iWord,      \* i of the loop of extractWordsToFolder
    trials,     \* one record per call of evaluateInfill, the last is the current
    made,       \* how many external calls of each kind were attempted
    error,      \* what was thrown
    exitCode,   \* the exit status, -1 while running
    brokeOut    \* the batch loop left through its break

mainVars == <<pc, rec, cache, words, wordsDir, files, voiceId, iTrial, iWord, trials,
              made, error, exitCode, brokeOut>>

vars == <<mergeVars, boundVars, mainVars>>

MainIdle ==
    /\ pc = "idle"
    /\ rec = <<>>
    /\ cache = <<>>
    /\ words = <<>>
    /\ wordsDir = <<>>
    /\ files = {}
    /\ voiceId = "none"
    /\ iTrial = 0
    /\ iWord = 0
    /\ trials = <<>>
    /\ made = <<>>
    /\ error = "none"
    /\ exitCode = -1
    /\ brokeOut = FALSE

MergeIdle ==
    /\ mPc = "idle"
    /\ mInput = <<>>
    /\ mWords = <<>>
    /\ mResult = <<>>
    /\ mOut = <<>>
    /\ mSecond = <<>>

BoundIdle ==
    /\ bPc = "idle"
    /\ bArgs = <<>>
    /\ bOut = <<>>

Others(own) ==
    /\ own = "merge" \/ MergeIdle
    /\ own = "bound" \/ BoundIdle
    /\ own = "main" \/ MainIdle

(***************************************************************************)
(* Inputs of the normalizer                                                *)
(***************************************************************************)
MaxLen == 3

Texts == { <<" ">>, <<"a">>, <<" ", "b">>, <<"\t", " ">> }
Gaps == {0, 1}
Durations == {1, 2}

WordShapes == [text : Texts, gap : Gaps, duration : Durations]

\* Lays the shapes out on the time line: each word starts gap after the end
\* of the word before it.
RECURSIVE LayOut(_, _)
LayOut(shapes, from) ==
    IF shapes = <<>> THEN <<>>
    ELSE LET h == Head(shapes)
             start == from + h.gap
         IN <<Word(h.text, start, h.duration)>>
                \o LayOut(Tail(shapes), start + h.duration)

SeqsUpTo(S, n) == UNION { [1..k -> S] : k \in 0..n }

\* The spec's example: Hi 0 0.3, " " 0.3 0.1, there 0.4 0.3
ExampleWords ==
    << Word(<<"H", "i">>, 0, 3),
       Word(<<" ">>, 3, 1),
       Word(<<"t", "h", "e", "r", "e">>, 4, 3) >>

ExampleMerged ==
    << Word(<<"H", "i">>, 0, 3),
       [value |-> <<" ", "t", "h", "e", "r", "e">>, startInSeconds |-> 3,
        duration |-> 4, audioStartInSeconds |-> 3] >>

MergeInputs ==
    { LayOut(sh, 0) : sh \in SeqsUpTo(WordShapes, MaxLen) } \cup {ExampleWords}

(***************************************************************************)
(* Calls of mergeSpacesWithFollowingWords                                  *)
(***************************************************************************)
MergeInit ==
    /\ mPc = "input"
    /\ mInput \in MergeInputs
    /\ mWords = mInput
    /\ mResult = <<>>
    /\ mOut = <<>>
    /\ mSecond = <<>>
    /\ Others("merge")

\* const out = mergeSpacesWithFollowingWords({ words })
MCall ==
    /\ mPc = "input"
    /\ LET r == mergeSpacesWithFollowingWords(mWords)
       IN /\ mWords' = r.words
          /\ mResult' = r.result
          /\ mOut' = r.result
    /\ mPc' = "called"
    /\ UNCHANGED <<mInput, mSecond, boundVars, mainVars>>

\* a second call with the same argument array
MCallAgain ==
    /\ mPc = "called"
    /\ LET r == mergeSpacesWithFollowingWords(mWords)
       IN /\ mWords' = r.words
          /\ mSecond' = r.result
    /\ mPc' = "again"
    /\ UNCHANGED <<mInput, mResult, mOut, boundVars, mainVars>>

\* a second call on the array the first call returned
MCallOnOutput ==
    /\ mPc = "called"
    /\ LET r == mergeSpacesWithFollowingWords(mOut)
       IN /\ mOut' = r.words
          /\ mSecond' = r.result
    /\ mPc' = "onOutput"
    /\ UNCHANGED <<mInput, mWords, mResult, boundVars, mainVars>>

MergeNext == MCall \/ MCallAgain \/ MCallOnOutput

SpecMerge == MergeInit /\ [][MergeNext]_vars

(***************************************************************************)
(* One boundary computation                                                *)
(***************************************************************************)
MaxBLen == 5
MaxCount == 2

BShapes == { [text |-> <<"a">>, gap |-> 0, duration |-> 1],
             [text |-> <<" ", "b">>, gap |-> 1, duration |-> 2],
             [text |-> <<" ", "C", "!">>, gap |-> 0, duration |-> 2] }

\* The spec's example: 21 words, 6/3/6 from index 0
ExampleRecording ==
    LayOut([k \in 1..21 |->
               [text |-> <<" ", LowerCase[k]>>, gap |-> k % 2, duration |-> 1 + (k % 3)]],
           0)

ExampleArgs ==
    [words |-> ExampleRecording, startIndex |-> 0,
     leftWordCount |-> 6, middleWordCount |-> 3, rightWordCount |-> 6]

\* the arguments a caller that validated the precondition can pass
BoundaryInputs ==
    { a \in [words : { LayOut(sh, 0) : sh \in SeqsUpTo(BShapes, MaxBLen) },
             startIndex : 0..MaxBLen,
             leftWordCount : 0..MaxCount,
             middleWordCount : 0..MaxCount,
             rightWordCount : 0..MaxCount] :
        a.startIndex + a.leftWordCount + a.middleWordCount + a.rightWordCount
            <= Len(a.words) }
      \cup {ExampleArgs}

BoundInit ==
    /\ bPc = "args"
    /\ bArgs \in BoundaryInputs
    /\ bOut = <<>>
    /\ Others("bound")

BSlices ==
    ComputeSlices(bArgs.words, bArgs.startIndex, bArgs.leftWordCount,
                  bArgs.middleWordCount, bArgs.rightWordCount)

\* lines 153-179 with both context slices non-empty
BCompute ==
    /\ bPc = "args"
    /\ ~OffsetsThrow(BSlices.leftWords, BSlices.rightWords)
    /\ bOut' = [slices |-> BSlices,
                offsets |-> ComputeOffsets(BSlices.leftWords, BSlices.rightWords)]
    /\ bPc' = "done"
    /\ UNCHANGED <<bArgs, mergeVars, mainVars>>

\* lines 153-179 with an empty context slice: leftWords[0].attrs throws
BComputeThrows ==
    /\ bPc = "args"
    /\ OffsetsThrow(BSlices.leftWords, BSlices.rightWords)
    /\ bOut' = [slices |-> BSlices]
    /\ bPc' = "threw"
    /\ UNCHANGED <<bArgs, mergeVars, mainVars>>

BoundNext == BCompute \/ BComputeThrows

SpecBoundaries == BoundInit /\ [][BoundNext]_vars

(***************************************************************************)
(* The run of main(): inputs                                               *)
(***************************************************************************)
leftWordCount == 6
middleWordCount == 3
rightWordCount == 6
totalNeeded == leftWordCount + middleWordCount + rightWordCount
evaluationCount == 10

\* The transcriber's tokens come from a vocabulary, taken round robin.
\* "speech" has a leading blank on each word, capitals and punctuation;
\* "spaced" has the blanks between words as tokens of their own.
Vocabulary(pattern) ==
    IF pattern = "speech"
    THEN << <<"H", "i">>, <<" ", "t", "o">>, <<" ", "A", "l", "l", "!">>,
            <<" ", "w", "e", "'", "r", "e">>, <<" ", "o", "n">>,
            <<" ", "4", "-", "2">>, <<" ", "n", "o", "w", ".">> >>
    ELSE << <<"u", "p">>, <<" ">>, <<"T", "o">>, <<" ">>, <<"\t">>,
            <<"i", "t", ",">>, <<" ">> >>

\* transcription.words: word k lasts 0.2 s and the next starts 0.1 s later
RawWords(n, pattern) ==
    LET v == Vocabulary(pattern)
    IN [k \in 1..n |->
           [word |-> v[((k - 1) % Len(v)) + 1], start |-> 3 * (k - 1),
            end |-> 3 * (k - 1) + 2]]

\* transcription.words?.map(...) ?? []
Chunks(raw) ==
    [k \in 1..Len(raw) |-> Word(raw[k].word, raw[k].start, raw[k].end - raw[k].start)]

Transcribed(r) ==
    mergeSpacesWithFollowingWords(Chunks(RawWords(r.tokens, r.pattern))).result

MinTokens == 12
MaxTokens == 36

Recordings ==
    [tokens : {0} \cup MinTokens..MaxTokens, pattern : {"speech", "spaced"}]

\* The cache entry is keyed by the file's base name: it is absent, holds
\* the recording's timestamps, or holds those of an older file of that name
\* (here: the recording without its last token).
CacheStates(r) ==
    { [present |-> FALSE, value |-> <<>>],
      [present |-> TRUE, value |-> Transcribed(r)],
      [present |-> TRUE,
       value |-> Transcribed([r EXCEPT !.tokens = IF @ = 0 THEN 0 ELSE @ - 1])] }

\* mutant: the step is rounded up
StepUp(n) == (n - totalNeeded + evaluationCount - 1) \div evaluationCount

\* Math.floor((words.length - totalNeeded) / evaluationCount)
Step(n) == (n - totalNeeded) \div evaluationCount

TrialSlices(W, startIndex) ==
    ComputeSlices(W, startIndex, leftWordCount, middleWordCount, rightWordCount)

\* const prefix = '_' + sanitizeFolderName({ text: middleText })
Prefix(middleText) == <<"_">> \o sanitizeFolderName(middleText)

File(prefix, kind) == <<prefix, kind>>

\* list-<Date.now()>.txt, the concat list of joinAudioFiles
ListName == <<"l", "i", "s", "t">>

\* mutant: the skip looks for the generated clip instead of the final one
FinalExistsGenerated(prefix, dir) == File(prefix, "generated") \in dir

\* fs.existsSync(finalPath)
FinalExists(prefix, dir) == File(prefix, "final") \in dir

\* What earlier runs over the word sequence W can have left in the output
\* directory: nothing; everything; a run that stopped in the join of its
\* sixth trial; everything, with the final clips of the even trials removed.
TrialPrefix(W, k) == Prefix(TrialSlices(W, k * Step(Len(W))).middleText)

TrialFiles(W, k, kinds) == { File(TrialPrefix(W, k), kind) : kind \in kinds }

AllKinds == {"left", "right", "generated", "final"}

Populations(W) ==
    IF Len(W) < totalNeeded THEN { {} }
    ELSE LET N == evaluationCount
             full == UNION { TrialFiles(W, k, AllKinds) : k \in 0..(N - 1) }
         IN { {},
              full,
              UNION { TrialFiles(W, k, AllKinds) : k \in 0..(N \div 2 - 1) }
                  \cup TrialFiles(W, N \div 2, {"left", "right", "generated"})
                  \cup { File(ListName, "earlier") },
              full \ UNION { TrialFiles(W, k, {"final"}) :
                               k \in { e \in 0..(N - 1) : e % 2 = 0 } } }

NoCalls == [transcribe |-> 0, extract |-> 0, clone |-> 0, infill |-> 0, join |-> 0]

MainInit ==
    /\ pc = "start"
    /\ rec \in Recordings
    /\ cache \in CacheStates(rec)
    /\ words = <<>>
    /\ wordsDir \in { [exists |-> FALSE, count |-> 0],
                      [exists |-> TRUE, count |-> Len(IF cache.present THEN cache.value
                                                      ELSE Transcribed(rec))] }
    /\ files \in Populations(IF cache.present THEN cache.value ELSE Transcribed(rec))
    /\ voiceId = "none"
    /\ iTrial = 0
    /\ iWord = 0
    /\ trials = <<>>
    /\ made = NoCalls
    /\ error = "none"
    /\ exitCode = -1
    /\ brokeOut = FALSE
    /\ Others("main")

(***************************************************************************)
(* The run of main(): steps.  The run is sequential; it gives up control   *)
(* only at an awaited external call, which returns or throws.              *)
(***************************************************************************)
Attempt(kind) == made' = [made EXCEPT ![kind] = @ + 1]

Throw(what) ==
    /\ pc' = "threw"
    /\ error' = what

\* getWordTimestamps with a cache entry
GetCachedTimestamps ==
    /\ pc = "start"
    /\ cache.present
    /\ words' = cache.value
    /\ pc' = "extractWords"
    /\ UNCHANGED <<mergeVars, boundVars,
                   rec, cache, wordsDir, files, voiceId, iTrial, iWord, trials,
                   made, error, exitCode, brokeOut>>

\* getWordTimestamps without one: transcribe, merge the blanks, store
FetchTimestamps ==
    /\ pc = "start"
    /\ ~cache.present
    /\ Attempt("transcribe")
    /\ LET chunks == Chunks(RawWords(rec.tokens, rec.pattern))
           mergedChunks == mergeSpacesWithFollowingWords(chunks).result
       IN /\ cache' = [present |-> TRUE, value |-> mergedChunks]
          /\ words' = mergedChunks
    /\ pc' = "extractWords"
    /\ UNCHANGED <<mergeVars, boundVars,
                   rec, wordsDir, files, voiceId, iTrial, iWord, trials, error,
                   exitCode, brokeOut>>

FetchTimestampsThrows ==
    /\ pc = "start"
    /\ ~cache.present
    /\ Attempt("transcribe")
    /\ Throw("transcribe")
    /\ UNCHANGED <<mergeVars, boundVars,
                   rec, cache, words, wordsDir, files, voiceId, iTrial, iWord,
                   trials, exitCode, brokeOut>>

\* extractWordsToFolder: the folder is there
ExtractWordsSkipped ==
    /\ pc = "extractWords"
    /\ wordsDir.exists
    /\ pc' = "checkWords"
    /\ UNCHANGED <<mergeVars, boundVars,
                   rec, cache, words, wordsDir, files, voiceId, iTrial, iWord,
                   trials, made, error, exitCode, brokeOut>>

\* extractWordsToFolder: the folder is made
ExtractWordsBegins ==
    /\ pc = "extractWords"
    /\ ~wordsDir.exists
    /\ wordsDir' = [exists |-> TRUE, count |-> 0]
    /\ iWord' = 0
    /\ pc' = "extractWord"
    /\ UNCHANGED <<mergeVars, boundVars,
                   rec, cache, words, files, voiceId, iTrial, trials, made,
                   error, exitCode, brokeOut>>

\* one pass of its loop: extractAudioSegment, then the word's file
ExtractWord ==
    /\ pc = "extractWord"
    /\ iWord < Len(words)
    /\ Attempt("extract")
    /\ wordsDir' = [wordsDir EXCEPT !.count = @ + 1]
    /\ iWord' = iWord + 1
    /\ UNCHANGED <<mergeVars, boundVars,
                   pc, rec, cache, words, files, voiceId, iTrial, trials, error,
                   exitCode, brokeOut>>

ExtractWordThrows ==
    /\ pc = "extractWord"
    /\ iWord < Len(words)
    /\ Attempt("extract")
    /\ Throw("extractWord")
    /\ UNCHANGED <<mergeVars, boundVars,
                   rec, cache, words, wordsDir, files, voiceId, iTrial, iWord,
                   trials, exitCode, brokeOut>>

ExtractWordsEnds ==
    /\ pc = "extractWord"
    /\ iWord >= Len(words)
    /\ pc' = "checkWords"
    /\ UNCHANGED <<mergeVars, boundVars,
                   rec, cache, words, wordsDir, files, voiceId, iTrial, iWord,
                   trials, made, error, exitCode, brokeOut>>

\* if (words.length < totalNeeded) throw
NotEnoughWords ==
    /\ pc = "checkWords"
    /\ Len(words) < totalNeeded
    /\ Throw("notEnoughWords")
    /\ UNCHANGED <<mergeVars, boundVars,
                   rec, cache, words, wordsDir, files, voiceId, iTrial, iWord,
                   trials, made, exitCode, brokeOut>>

EnoughWords ==
    /\ pc = "checkWords"
    /\ Len(words) >= totalNeeded
    /\ pc' = "voiceSample"
    /\ UNCHANGED <<mergeVars, boundVars,
                   rec, cache, words, wordsDir, files, voiceId, iTrial, iWord,
                   trials, made, error, exitCode, brokeOut>>

\* the voice sample: extractAudioSegment over the first left words
ExtractVoiceSample ==
    /\ pc = "voiceSample"
    /\ Attempt("extract")
    /\ pc' = "clone"
    /\ UNCHANGED <<mergeVars, boundVars,
                   rec, cache, words, wordsDir, files, voiceId, iTrial, iWord,
                   trials, error, exitCode, brokeOut>>

ExtractVoiceSampleThrows ==
    /\ pc = "voiceSample"
    /\ Attempt("extract")
    /\ Throw("voiceSample")
    /\ UNCHANGED <<mergeVars, boundVars,
                   rec, cache, words, wordsDir, files, voiceId, iTrial, iWord,
                   trials, exitCode, brokeOut>>

\* cartesia.voices.clone
CloneVoice ==
    /\ pc = "clone"
    /\ Attempt("clone")
    /\ voiceId' = "cloned"
    /\ iTrial' = 0
    /\ pc' = "loop"
    /\ UNCHANGED <<mergeVars, boundVars,
                   rec, cache, words, wordsDir, files, iWord, trials, error,
                   exitCode, brokeOut>>

CloneVoiceThrows ==
    /\ pc = "clone"
    /\ Attempt("clone")
    /\ Throw("clone")
    /\ UNCHANGED <<mergeVars, boundVars,
                   rec, cache, words, wordsDir, files, voiceId, iTrial, iWord,
                   trials, exitCode, brokeOut>>

\* const startIndex = i * step
StartIndex == iTrial * Step(Len(words))

\* the loop goes on: i < evaluationCount and the break is not taken
LoopGoesOn ==
    /\ pc = "loop"
    /\ iTrial < evaluationCount
    /\ ~(StartIndex + totalNeeded > Len(words))

NewTrial(existed) ==
    LET sl == TrialSlices(words, StartIndex)
    IN [index |-> iTrial,
        startIndex |-> StartIndex,
        sizes |-> <<Len(sl.leftWords), Len(sl.middleWords), Len(sl.rightWords)>>,
        prefix |-> Prefix(sl.middleText),
        dirBefore |-> files,
        madeBefore |-> made,
        offsets |-> IF existed THEN <<>> ELSE ComputeOffsets(sl.leftWords, sl.rightWords),
        calls |-> <<>>,
        wrote |-> {},
        outcome |-> IF existed THEN "skipped" ELSE "running"]

\* evaluateInfill returns at once: the final clip is there
TrialSkipped ==
    /\ LoopGoesOn
    /\ FinalExists(Prefix(TrialSlices(words, StartIndex).middleText), files)
    /\ trials' = Append(trials, NewTrial(TRUE))
    /\ iTrial' = iTrial + 1
    /\ UNCHANGED <<mergeVars, boundVars,
                   pc, rec, cache, words, wordsDir, files, voiceId, iWord, made,
                   error, exitCode, brokeOut>>

\* evaluateInfill goes up to its first extraction
TrialBegins ==
    /\ LoopGoesOn
    /\ ~FinalExists(Prefix(TrialSlices(words, StartIndex).middleText), files)
    /\ trials' = Append(trials, NewTrial(FALSE))
    /\ pc' = "extractLeft"
    /\ UNCHANGED <<mergeVars, boundVars,
                   rec, cache, words, wordsDir, files, voiceId, iTrial, iWord,
                   made, error, exitCode, brokeOut>>

Current == trials[Len(trials)]

\* the current trial attempts a call, and may write files after it
TrialCalls(call, written, outcome) ==
    /\ trials' = [trials EXCEPT ![Len(trials)] =
                     [@ EXCEPT !.calls = Append(@, call),
                               !.wrote = @ \cup written,
                               !.outcome = outcome]]
    /\ files' = files \cup written

ExtractLeft ==
    /\ pc = "extractLeft"
    /\ Attempt("extract")
    /\ TrialCalls("extractLeft", {}, "running")
    /\ pc' = "extractRight"
    /\ UNCHANGED <<mergeVars, boundVars,
                   rec, cache, words, wordsDir, voiceId, iTrial, iWord, error,
                   exitCode, brokeOut>>

ExtractLeftThrows ==
    /\ pc = "extractLeft"
    /\ Attempt("extract")
    /\ TrialCalls("extractLeft", {}, "threw")
    /\ Throw("extractLeft")
    /\ UNCHANGED <<mergeVars, boundVars,
                   rec, cache, words, wordsDir, voiceId, iTrial, iWord, exitCode,
                   brokeOut>>

\* the right extraction, then both context clips are written
ExtractRight ==
    /\ pc = "extractRight"
    /\ Attempt("extract")
    /\ TrialCalls("extractRight",
                  {File(Current.prefix, "left"), File(Current.prefix, "right")},
                  "running")
    /\ pc' = "infill"
    /\ UNCHANGED <<mergeVars, boundVars,
                   rec, cache, words, wordsDir, voiceId, iTrial, iWord, error,
                   exitCode, brokeOut>>

ExtractRightThrows ==
    /\ pc = "extractRight"
    /\ Attempt("extract")
    /\ TrialCalls("extractRight", {}, "threw")
    /\ Throw("extractRight")
    /\ UNCHANGED <<mergeVars, boundVars,
                   rec, cache, words, wordsDir, voiceId, iTrial, iWord, exitCode,
                   brokeOut>>

\* cartesia.infill.bytes, then the generated clip is written
Infill ==
    /\ pc = "infill"
    /\ Attempt("infill")
    /\ TrialCalls("infill", {File(Current.prefix, "generated")}, "running")
    /\ pc' = "join"
    /\ UNCHANGED <<mergeVars, boundVars,
                   rec, cache, words, wordsDir, voiceId, iTrial, iWord, error,
                   exitCode, brokeOut>>

InfillThrows ==
    /\ pc = "infill"
    /\ Attempt("infill")
    /\ TrialCalls("infill", {}, "threw")
    /\ Throw("infill")
    /\ UNCHANGED <<mergeVars, boundVars,
                   rec, cache, words, wordsDir, voiceId, iTrial, iWord, exitCode,
                   brokeOut>>

\* joinAudioFiles: the list file is written, ffmpeg writes the final clip,
\* the list file is removed; evaluateInfill returns
Join ==
    /\ pc = "join"
    /\ Attempt("join")
    /\ TrialCalls("join", {File(Current.prefix, "final")}, "saved")
    /\ iTrial' = iTrial + 1
    /\ pc' = "loop"
    /\ UNCHANGED <<mergeVars, boundVars,
                   rec, cache, words, wordsDir, voiceId, iWord, error, exitCode,
                   brokeOut>>

\* ffmpeg fails: the list file stays
JoinThrows ==
    /\ pc = "join"
    /\ Attempt("join")
    /\ TrialCalls("join", { File(ListName, "now") }, "threw")
    /\ Throw("join")
    /\ UNCHANGED <<mergeVars, boundVars,
                   rec, cache, words, wordsDir, voiceId, iTrial, iWord, exitCode,
                   brokeOut>>

\* the loop ends, by its condition or by its break; main returns
LoopEnds ==
    /\ pc = "loop"
    /\ iTrial >= evaluationCount \/ StartIndex + totalNeeded > Len(words)
    /\ brokeOut' = (iTrial < evaluationCount)
    /\ pc' = "exited"
    /\ exitCode' = 0
    /\ UNCHANGED <<mergeVars, boundVars,
                   rec, cache, words, wordsDir, files, voiceId, iTrial, iWord,
                   trials, made, error>>

\* main().catch: the error is printed, process.exit(1)
Catch ==
    /\ pc = "threw"
    /\ pc' = "exited"
    /\ exitCode' = 1
    /\ UNCHANGED <<mergeVars, boundVars,
                   rec, cache, words, wordsDir, files, voiceId, iTrial, iWord,
                   trials, made, error, brokeOut>>

Next ==
    \/ GetCachedTimestamps \/ FetchTimestamps \/ FetchTimestampsThrows
    \/ ExtractWordsSkipped \/ ExtractWordsBegins
    \/ ExtractWord \/ ExtractWordThrows \/ ExtractWordsEnds
    \/ NotEnoughWords \/ EnoughWords
    \/ ExtractVoiceSample \/ ExtractVoiceSampleThrows
    \/ CloneVoice \/ CloneVoiceThrows
    \/ TrialSkipped \/ TrialBegins
    \/ ExtractLeft \/ ExtractLeftThrows
    \/ ExtractRight \/ ExtractRightThrows
    \/ Infill \/ InfillThrows
    \/ Join \/ JoinThrows
    \/ LoopEnds \/ Catch

Spec == MainInit /\ [][Next]_vars

(***************************************************************************)
(* Properties of mergeSpacesWithFollowingWords                             *)
(***************************************************************************)
RECURSIVE SumDuration(_)
SumDuration(ws) ==
    IF ws = <<>> THEN 0 ELSE Head(ws).duration + SumDuration(Tail(ws))

EndOf(word) == word.startInSeconds + word.duration

SpokenAt(W) == { i \in 1..Len(W) : Trim(W[i].value) # <<>> }

\* the index in W of the k-th word that is not whitespace-only
SpokenIndex(W, k) ==
    CHOOSE j \in SpokenAt(W) : Cardinality({ i \in SpokenAt(W) : i <= j }) = k

\* the first index of the group that ends at the spoken word j: the
\* whitespace-only words right before j, then j
GroupStart(W, j) ==
    CHOOSE p \in 1..j :
        /\ \A i \in p..(j - 1) : i \notin SpokenAt(W)
        /\ p = 1 \/ (p - 1) \in SpokenAt(W)

\* the whitespace-only words at the end of W
TrailingSpaces(W) ==
    { i \in 1..Len(W) : \A k \in i..Len(W) : k \notin SpokenAt(W) }

MergeReturned == mPc \in {"called", "again", "onOutput"}

\* C5: every whitespace-only word with a successor is merged into it (text
\* prepended, start taken from the whitespace, durations added, runs
\* accumulating into the next spoken word) and is absent from the output; a
\* whitespace-only word without successor is dropped.  The example of the
\* spec comes out as stated.
C5_MergeIntoSuccessor ==
    MergeReturned =>
        /\ Len(mResult) = Cardinality(SpokenAt(mInput))
        /\ \A k \in 1..Len(mResult) :
              LET j == SpokenIndex(mInput, k)
                  p == GroupStart(mInput, j)
                  group == SubSeq(mInput, p, j)
              IN /\ mResult[k].value = JoinValues(group)
                 /\ mResult[k].startInSeconds = mInput[p].startInSeconds
                 /\ mResult[k].audioStartInSeconds = mInput[p].audioStartInSeconds
                 /\ mResult[k].duration = SumDuration(group)
        /\ mInput = ExampleWords => mResult = ExampleMerged

C5_Witness ==
    /\ mPc = "called"
    /\ mInput = ExampleWords
    /\ mResult = ExampleMerged

\* C6: the output has no whitespace-only word and no more words than the
\* input, an input without whitespace-only words is returned as it is, and
\* a second pass over the output returns the output unchanged.
C6_Idempotent ==
    /\ MergeReturned =>
          /\ SpokenAt(mResult) = 1..Len(mResult)
          /\ Len(mResult) <= Len(mInput)
          /\ SpokenAt(mInput) = 1..Len(mInput) => mResult = mInput
    /\ mPc = "onOutput" => mSecond = mResult /\ mOut = mResult

C6_Witness ==
    /\ mPc = "onOutput"
    /\ Len(mInput) = 3
    /\ 1 \notin SpokenAt(mInput)
    /\ 2 \in SpokenAt(mInput)
    /\ 3 \notin SpokenAt(mInput)
    /\ Len(mSecond) = 1

\* C7 as claimed: the durations of the output add up to those of the input
\* minus the duration of the last word when that word is whitespace-only.
C7_SumMinusLastSpace ==
    MergeReturned =>
        SumDuration(mResult) =
            SumDuration(mInput)
              - (IF mInput # <<>> /\ Len(mInput) \notin SpokenAt(mInput)
                 THEN mInput[Len(mInput)].duration ELSE 0)

\* C7 amended: the durations of the output add up to those of the input
\* minus the durations of all the whitespace-only words at the end of the
\* input (the whole trailing run, not only its last word).
C7_SumMinusTrailingRun ==
    MergeReturned =>
        SumDuration(mResult) =
            SumDuration(mInput)
              - SumDuration(SubSeq(mInput, Len(mInput) - Cardinality(TrailingSpaces(mInput)) + 1,
                                   Len(mInput)))

C7_Witness ==
    /\ mPc = "called"
    /\ Len(mInput) = 3
    /\ SpokenAt(mInput) = {1}
    /\ SumDuration(mResult) = mInput[1].duration
    /\ SumDuration(mInput) > SumDuration(mResult) + mInput[3].duration

\* the Word ordering invariant: durations and starts are not negative,
\* starts do not decrease and no word runs into the start of the next.
Ordered(W) ==
    /\ \A i \in 1..Len(W) : W[i].duration >= 0 /\ W[i].startInSeconds >= 0
    /\ \A i \in 1..(Len(W) - 1) :
          /\ W[i].startInSeconds <= W[i + 1].startInSeconds
          /\ EndOf(W[i]) <= W[i + 1].startInSeconds

\* C8: on an ordered input the output spans the same time as the input,
\* except that dropped trailing whitespace shortens the end; a merged word
\* ends where the spoken word it was merged into ends.
C8_SpanPreserved ==
    (MergeReturned /\ Ordered(mInput) /\ mResult # <<>>) =>
        /\ mResult[1].startInSeconds = mInput[1].startInSeconds
        /\ IF Len(mInput) \in SpokenAt(mInput)
           THEN EndOf(mResult[Len(mResult)]) = EndOf(mInput[Len(mInput)])
           ELSE EndOf(mResult[Len(mResult)]) <= EndOf(mInput[Len(mInput)])
        /\ \A k \in 1..Len(mResult) :
              EndOf(mResult[k]) = EndOf(mInput[SpokenIndex(mInput, k)])

\* C9: a call leaves the caller's array as it was, a second call on the
\* same array returns what the first returned, and an empty input gives an
\* empty output.
C9_Pure ==
    /\ MergeReturned => mWords = mInput
    /\ mPc = "again" => mSecond = mResult
    /\ (MergeReturned /\ mInput = <<>>) => mResult = <<>>

(***************************************************************************)
(* Properties of the boundary computation                                  *)
(***************************************************************************)
\* the text of a run of words, built from its last word backwards
RECURSIVE TextOf(_)
TextOf(ws) ==
    IF ws = <<>> THEN <<>>
    ELSE TextOf(SubSeq(ws, 1, Len(ws) - 1)) \o ws[Len(ws)].value

\* words[from, to) with 0-based bounds
Range(W, from, to) == [k \in 1..(to - from) |-> W[from + k]]

BoundComputed == bPc \in {"done", "threw"}

\* C4: for arguments within the precondition the three slices are
\* words[s, s+l), words[s+l, s+l+m) and words[s+l+m, s+l+m+r), which together
\* are words[s, s+l+m+r); the middle text is the concatenation of the middle
\* words' text; a context segment starts at its first word's start and ends
\* at its last word's start plus duration.
C4_Boundaries ==
    BoundComputed =>
        LET W == bArgs.words
            s == bArgs.startIndex
            l == bArgs.leftWordCount
            m == bArgs.middleWordCount
            r == bArgs.rightWordCount
            o == bOut.slices
        IN /\ o.leftWords = Range(W, s, s + l)
           /\ o.middleWords = Range(W, s + l, s + l + m)
           /\ o.rightWords = Range(W, s + l + m, s + l + m + r)
           /\ o.leftWords \o o.middleWords \o o.rightWords = Range(W, s, s + l + m + r)
           /\ o.middleText = TextOf(o.middleWords)
           /\ bPc = "done" =>
                 /\ bOut.offsets.leftStart = W[s + 1].startInSeconds
                 /\ bOut.offsets.leftEnd = W[s + l].startInSeconds + W[s + l].duration
                 /\ bOut.offsets.rightStart = W[s + l + m + 1].startInSeconds
                 /\ bOut.offsets.rightEnd =
                        W[s + l + m + r].startInSeconds + W[s + l + m + r].duration

C4_Witness ==
    /\ bPc = "done"
    /\ bArgs = ExampleArgs
    /\ bOut.slices.leftWords = SubSeq(ExampleRecording, 1, 6)
    /\ bOut.slices.middleWords = SubSeq(ExampleRecording, 7, 9)
    /\ bOut.slices.rightWords = SubSeq(ExampleRecording, 10, 15)

(***************************************************************************)
(* Properties of the run of main()                                         *)
(***************************************************************************)
\* C1: when there are fewer words than totalNeeded, main fails with the
\* not-enough-words error before any extraction call and before any
\* synthesis call (clone or infill) was attempted.
C1_FailsBeforeAnyCall ==
    error = "notEnoughWords" =>
        /\ made.extract = 0
        /\ made.clone = 0
        /\ made.infill = 0

FullOrder == <<"extractLeft", "extractRight", "infill", "join">>

IsPrefix(a, b) == Len(a) <= Len(b) /\ a = SubSeq(b, 1, Len(a))

\* the external calls attempted between two points of the run
CallsBetween(before, after) ==
    [kind \in DOMAIN before |-> after[kind] - before[kind]]

\* C2: a trial whose final clip is in the output directory when it starts
\* makes no extraction, infill or join call and writes no file; a trial
\* whose final clip is absent makes the calls extract left, extract right,
\* infill, join in that order (a call that throws ends the run there), all
\* four when it returns.  Re-runs over populated directories included.
C2_SkipByExistence ==
    \A k \in 1..Len(trials) :
        LET t == trials[k]
            ended == k < Len(trials) \/ pc \in {"loop", "exited", "threw"}
            madeAfter == IF k < Len(trials) THEN trials[k + 1].madeBefore ELSE made
            dirAfter == IF k < Len(trials) THEN trials[k + 1].dirBefore ELSE files
        IN IF <<t.prefix, "final">> \in t.dirBefore
           THEN /\ t.outcome = "skipped"
                /\ t.calls = <<>>
                /\ t.wrote = {}
                /\ ended => /\ madeAfter = t.madeBefore
                            /\ dirAfter = t.dirBefore
           ELSE /\ t.outcome \in {"running", "saved", "threw"}
                /\ IsPrefix(t.calls, FullOrder)
                /\ (ended /\ t.outcome # "threw") =>
                      /\ t.outcome = "saved"
                      /\ t.calls = FullOrder
                      /\ CallsBetween(t.madeBefore, madeAfter) =
                            [NoCalls EXCEPT !.extract = 2, !.infill = 1, !.join = 1]
                      /\ <<t.prefix, "final">> \in dirAfter

\* a re-run over a populated directory: one trial saved, the next skipped
C2_Witness ==
    /\ Len(trials) >= 2
    /\ trials[1].dirBefore # {}
    /\ trials[1].outcome = "saved"
    /\ \E k \in 2..Len(trials) :
          /\ trials[k].outcome = "skipped"
          /\ trials[k].prefix # trials[1].prefix
          /\ <<trials[k].prefix, "final">> \in trials[1].dirBefore

\* C3: a trial that fails does not end the batch, every later trial is
\* still run; only a failure preparing the voice (sample extraction or
\* clone) ends it, with no trial run and a non-zero exit.
C3_TrialFailureContinues ==
    /\ (pc = "exited" /\ voiceId = "cloned") => Len(trials) = evaluationCount
    /\ error \in {"voiceSample", "clone"} =>
          /\ trials = <<>>
          /\ pc = "exited" => exitCode = 1

\* the floor of (n - totalNeeded) / evaluationCount, by its defining bounds
FloorStep(n) ==
    CHOOSE q \in 0..n :
        /\ q * evaluationCount <= n - totalNeeded
        /\ n - totalNeeded < (q + 1) * evaluationCount

\* C10: with enough words, trial i starts at i * step, every trial has
\* 0 <= startIndex and startIndex + totalNeeded <= words.length, so the
\* three slices have 6, 3 and 6 words and the break is never taken; a run
\* without errors makes evaluationCount trials; with step 0 every trial
\* starts at 0.
C10_EvenlySpaced ==
    /\ \A k \in 1..Len(trials) :
          LET t == trials[k]
          IN /\ t.index = k - 1
             /\ t.startIndex = (k - 1) * FloorStep(Len(words))
             /\ 0 <= t.startIndex
             /\ t.startIndex + totalNeeded <= Len(words)
             /\ t.sizes = <<leftWordCount, middleWordCount, rightWordCount>>
             /\ FloorStep(Len(words)) = 0 => t.startIndex = 0
    /\ ~brokeOut
    /\ (pc = "exited" /\ exitCode = 0) => Len(trials) = evaluationCount

C10_Witness ==
    /\ pc = "exited"
    /\ exitCode = 0
    /\ Len(trials) = evaluationCount
    /\ FloorStep(Len(words)) = 2
    /\ trials[evaluationCount].startIndex = 18

====
